---- MODULE Spec2Model ----
(***************************************************************************)
(* The two notebooks of keras_quickstart/4_save_and_load.ipynb as state    *)
(* machines: the cells that save and restore Keras models, and the cells   *)
(* that build and iterate tf.data pipelines.  A cell's call into the       *)
(* framework is modelled by what the call does to the program's state:     *)
(* the model instance bound to a name, the files under a directory, the    *)
(* iterator of a dataset.                                                  *)
(***************************************************************************)
EXTENDS Naturals, Integers, Sequences, FiniteSets, TLC

VARIABLES
    pc,         \* the cell (or the step within a cell) that runs next
    seed,       \* the random state the process started with
    nextId,     \* identity given to the next model instance
    model,      \* the instance bound to the global name `model`
    new_model,  \* the instance bound to `new_model` (load_model's result)
    trained,    \* the instance `model` named before it was re-bound
    fs,         \* the file system: path -> content
    epoch,      \* epochs completed by the running model.fit
    cp_callback,\* state of the ModelCheckpoint instance
    latest,     \* the global name `latest`
    writes,     \* history: checkpoint paths in the order they were written
    cbSaves,    \* history: <<epoch, path>> of every save the callback made
    datasets,   \* the datasets bound to train_ds, local_ds, train_cache_ds
    ds,         \* timeit's parameter ds: the dataset being iterated
    st,         \* the iterator `it` of timeit, the caches and the call counts
    steps,      \* timeit's loop counter i
    batch,      \* what the last next(it) returned
    first,      \* what the first next(it) returned
    globals,    \* the TFRecord cells' global names: the def each is bound to
    locals,     \* the parameters and loop counter of the running call
    yielded     \* history: the batches each test_ds has yielded, in order

\* the state of the cells that save and load models, but for pc
ckptVars == <<seed, nextId, model, new_model, trained, fs, epoch,
              cp_callback, latest, writes, cbSaves>>

\* the state of the cells that build and iterate datasets, but for pc
dataVars == <<datasets, ds, st, steps, batch, first, globals, locals, yielded>>

\* the state of the cells that write and read TFRecord files
tfrVars == <<globals, locals, yielded>>

vars == <<pc, ckptVars, dataVars>>

---------------------------------------------------------------------------
(* Bounds of the model *)

\* values a weight (or an optimizer slot) ranges over: 0 .. WeightRange-1
WeightRange == 3
\* number of distinct random states (seeds) a run may start with
SeedRange == 2

(* Program constants *)

\* model.fit(..., epochs=10, ...) of the first training run
EPOCHS_1 == 10
\* model.fit(..., epochs=50, ...) of the second training run
EPOCHS_2 == 50
\* ModelCheckpoint(..., period=5)
PERIOD_2 == 5
\* model.fit(train_images, train_labels, epochs=5) before model.save
EPOCHS_SAVE == 5

---------------------------------------------------------------------------
(* The model built by create_model *)

None == [id |-> 0]

\* tf.keras.models.Sequential([Dense(512), Dropout(0.2), Dense(10)])
Layers == <<"dense", "dropout", "dense_1">>

\* the layers that hold variables, in layer order (Dropout holds none)
WeightedLayers(arch) == SelectSeq(arch, LAMBDA l : l # "dropout")

Vars == {Layers[i] : i \in {j \in 1..Len(Layers) : Layers[j] # "dropout"}}

Values == 0 .. (WeightRange - 1)

Weights == [Vars -> Values]

\* model.compile(optimizer='adam', loss=..., metrics=['accuracy'])
CompileArgs ==
    [optimizer |-> "adam",
     loss |-> "SparseCategoricalCrossentropy(from_logits=True)",
     metrics |-> <<"accuracy">>]

\* a freshly constructed Adam: no step taken, slots at zero
FreshOptimizer == [iterations |-> 0, slot |-> [v \in Vars |-> 0]]

\* create_model(): a new compiled instance with randomly initialised weights
create_model(id, w0) ==
    [id |-> id, arch |-> Layers, w |-> w0,
     optimizer |-> FreshOptimizer, compiled |-> CompileArgs]

\* the gradient signal of one epoch: fixed by the random state and the
\* number of optimizer steps already taken (data order, dropout masks)
Gradient(s, iterations) == 1 + ((s + iterations) % 2)

\* one epoch of model.fit on instance m: the optimizer folds the gradient
\* into its slots and moves every weight by its slot
TrainEpoch(m, s) ==
    LET g == Gradient(s, m.optimizer.iterations)
        slot == [v \in Vars |-> (m.optimizer.slot[v] + g) % WeightRange]
    IN  [m EXCEPT !.w = [v \in Vars |-> (m.w[v] + slot[v]) % WeightRange],
                  !.optimizer = [iterations |-> m.optimizer.iterations + 1,
                                 slot |-> slot]]

---------------------------------------------------------------------------
(* Paths *)

Digit(d) ==
    CASE d = 0 -> "0" [] d = 1 -> "1" [] d = 2 -> "2" [] d = 3 -> "3"
      [] d = 4 -> "4" [] d = 5 -> "5" [] d = 6 -> "6" [] d = 7 -> "7"
      [] d = 8 -> "8" [] d = 9 -> "9"

\* str.format of "{epoch:04d}": at least four digits, zero padded
Format04d(n) ==
    LET low == Digit((n \div 100) % 10) \o Digit((n \div 10) % 10) \o Digit(n % 10)
    IN  IF n < 10000 THEN Digit(n \div 1000) \o low
        ELSE Digit(n \div 10000) \o Digit((n \div 1000) % 10) \o low

\* checkpoint_path = "training_1/cp.ckpt"
checkpoint_path_1 == [dir |-> "training_1", name |-> <<"cp.ckpt">>]

\* checkpoint_path = "training_2/cp-{epoch:04d}.ckpt"
checkpoint_path_2 == [dir |-> "training_2", name |-> <<"cp-", "{epoch:04d}", ".ckpt">>]

RECURSIVE FormatName(_, _)
FormatName(parts, e) ==
    IF parts = <<>> THEN ""
    ELSE (IF Head(parts) = "{epoch:04d}" THEN Format04d(e) ELSE Head(parts))
         \o FormatName(Tail(parts), e)

\* checkpoint_path.format(epoch=e): a path <<directory, file name>>
FormatPath(template, e) == <<template.dir, FormatName(template.name, e)>>

\* os.path.dirname(checkpoint_path)
Dirname(template) == template.dir

\* the literal string of the template, as passed to load_weights unformatted
RECURSIVE RawName(_)
RawName(parts) == IF parts = <<>> THEN "" ELSE Head(parts) \o RawName(Tail(parts))

RawPath(template) == <<template.dir, RawName(template.name)>>

\* './checkpoints/my_checkpoint'
my_checkpoint == <<"./checkpoints", "my_checkpoint">>

NoPath == <<"", "">>

---------------------------------------------------------------------------
(* Checkpoints on the file system *)

\* a variant that stores the first layer's value under every key
CheckpointEntries_SameTensor(m) ==
    LET wl == WeightedLayers(m.arch)
    IN  {<<i, m.w[wl[1]]>> : i \in 1..Len(wl)}

\* the checkpoint key of the i-th layer that holds variables
\* (layer_with_weights-<i-1>) paired with that layer's value
CheckpointEntries(m) ==
    LET wl == WeightedLayers(m.arch)
    IN  {<<i, m.w[wl[i]]>> : i \in 1..Len(wl)}

\* what a TensorFlow-format checkpoint of instance m holds
CheckpointOf(m) ==
    [kind |-> "ckpt", entries |-> CheckpointEntries(m), optimizer |-> m.optimizer]

\* the `checkpoint` state file of a directory
StateFile(dir) == <<dir, "checkpoint">>

\* write content c at path p, keeping every other file
WriteFile(fsys, p, c) ==
    [q \in (DOMAIN fsys) \cup {p} |-> IF q = p THEN c ELSE fsys[q]]

\* a variant that leaves an existing state file as it is
save_weights_KeepsState(fsys, m, path) ==
    IF StateFile(path[1]) \in DOMAIN fsys
    THEN WriteFile(fsys, path, CheckpointOf(m))
    ELSE WriteFile(WriteFile(fsys, path, CheckpointOf(m)),
                   StateFile(path[1]),
                   [kind |-> "state", model_checkpoint_path |-> path[2]])

\* model.save_weights(path): writes (or overwrites) the checkpoint at path
\* and records it in the directory's state file; removes nothing
save_weights(fsys, m, path) ==
    WriteFile(WriteFile(fsys, path, CheckpointOf(m)),
              StateFile(path[1]),
              [kind |-> "state", model_checkpoint_path |-> path[2]])

\* the checkpoints a directory holds (what `ls` groups as one prefix)
Checkpoints(fsys, dir) ==
    {p \in DOMAIN fsys : p[1] = dir /\ fsys[p].kind = "ckpt"}

\* tf.train.latest_checkpoint(dir): the path the state file records
latest_checkpoint(fsys, dir) ==
    IF StateFile(dir) \in DOMAIN fsys
       /\ <<dir, fsys[StateFile(dir)].model_checkpoint_path>> \in DOMAIN fsys
    THEN <<dir, fsys[StateFile(dir)].model_checkpoint_path>>
    ELSE NoPath

\* the value a checkpoint holds for the i-th layer with variables
EntryValue(ckpt, i) == (CHOOSE e \in ckpt.entries : e[1] = i)[2]

\* a variant that numbers the layers with variables from the last one
LayerIndex_Reversed(arch, v) ==
    CHOOSE i \in 1..Len(WeightedLayers(arch)) :
        WeightedLayers(arch)[Len(WeightedLayers(arch)) + 1 - i] = v

\* position of layer v among the layers with variables
LayerIndex(arch, v) ==
    CHOOSE i \in 1..Len(WeightedLayers(arch)) : WeightedLayers(arch)[i] = v

\* model.load_weights(path) on instance m: every variable takes the value
\* stored under its key; the instance stays the same object
load_weights(m, fsys, path) ==
    [m EXCEPT !.w = [v \in Vars |-> EntryValue(fsys[path], LayerIndex(m.arch, v))],
              !.optimizer = fsys[path].optimizer]

---------------------------------------------------------------------------
(* tf.keras.callbacks.ModelCheckpoint(filepath, save_weights_only=True) *)

ModelCheckpoint(filepath, period) ==
    [filepath |-> filepath, period |-> period, epochs_since_last_save |-> 0]

\* a variant that compares the counter strictly, saving one epoch late
CallbackSaves_Strict(cb) == cb.epochs_since_last_save + 1 > cb.period

\* whether on_epoch_end saves at this epoch end
CallbackSaves(cb) == cb.epochs_since_last_save + 1 >= cb.period

\* a variant that never resets the counter after a save
on_epoch_end_NoReset(cb) ==
    [cb EXCEPT !.epochs_since_last_save = @ + 1]

\* the callback after on_epoch_end
on_epoch_end(cb) ==
    [cb EXCEPT !.epochs_since_last_save = IF CallbackSaves(cb) THEN 0 ELSE @ + 1]

\* the file the callback writes at the end of the epoch numbered e (from 0)
CallbackPath(cb, e) == FormatPath(cb.filepath, e + 1)

---------------------------------------------------------------------------
(* Cells *)

Seeds == 0 .. (SeedRange - 1)

\* model = create_model(): a new instance bound to `model`; the instance
\* the name held before is remembered as `trained`
CreateModel(here, next) ==
    /\ pc = here
    /\ \E w0 \in Weights : model' = create_model(nextId, w0)
    /\ nextId' = nextId + 1
    /\ trained' = model
    /\ pc' = next
    /\ UNCHANGED <<seed, new_model, fs, epoch, cp_callback, latest, writes,
                   cbSaves>>
    /\ UNCHANGED dataVars

\* cp_callback = tf.keras.callbacks.ModelCheckpoint(...)
MakeCallback(here, next, filepath, period) ==
    /\ pc = here
    /\ cp_callback' = ModelCheckpoint(filepath, period)
    /\ epoch' = 0
    /\ pc' = next
    /\ UNCHANGED <<seed, nextId, model, new_model, trained, fs, latest, writes,
                   cbSaves>>
    /\ UNCHANGED dataVars

\* one epoch of model.fit(..., epochs=epochs, callbacks=[cp_callback]):
\* the epoch trains the model, then the callback's on_epoch_end runs
FitEpoch(here, next, epochs) ==
    /\ pc = here
    /\ epoch < epochs
    /\ LET m == TrainEpoch(model, seed)
           path == CallbackPath(cp_callback, epoch)
       IN  /\ model' = m
           /\ IF CallbackSaves(cp_callback)
              THEN /\ fs' = save_weights(fs, m, path)
                   /\ writes' = Append(writes, path)
                   /\ cbSaves' = Append(cbSaves, <<epoch + 1, path>>)
              ELSE UNCHANGED <<fs, writes, cbSaves>>
    /\ cp_callback' = on_epoch_end(cp_callback)
    /\ epoch' = epoch + 1
    /\ pc' = IF epoch + 1 = epochs THEN next ELSE here
    /\ UNCHANGED <<seed, nextId, new_model, trained, latest>>
    /\ UNCHANGED dataVars

\* model.save_weights(path)
SaveWeights(here, next, path) ==
    /\ pc = here
    /\ fs' = save_weights(fs, model, path)
    /\ writes' = Append(writes, path)
    /\ pc' = next
    /\ UNCHANGED <<seed, nextId, model, new_model, trained, epoch, cp_callback,
                   latest, cbSaves>>
    /\ UNCHANGED dataVars

\* model.load_weights(path); a path that names no checkpoint raises
LoadWeights(here, next, path) ==
    /\ pc = here
    /\ IF path \in DOMAIN fs /\ fs[path].kind = "ckpt"
       THEN /\ model' = load_weights(model, fs, path)
            /\ pc' = next
       ELSE /\ pc' = "error"
            /\ UNCHANGED model
    /\ UNCHANGED <<seed, nextId, new_model, trained, fs, epoch, cp_callback,
                   latest, writes, cbSaves>>
    /\ UNCHANGED dataVars

\* latest = tf.train.latest_checkpoint(checkpoint_dir)
LatestCheckpoint(here, next, dir) ==
    /\ pc = here
    /\ latest' = latest_checkpoint(fs, dir)
    /\ pc' = next
    /\ UNCHANGED <<seed, nextId, model, new_model, trained, fs, epoch,
                   cp_callback, writes, cbSaves>>
    /\ UNCHANGED dataVars

\* what an iterator returns at the end of its sequence
EOS == <<"EOS", 0>>

\* the functions given to Dataset.map
Functions == {"get_bytes_label", "process_image",
              "get_bytes_label_tfrecord", "process_image_tfrecord@1411",
              "_parse_function@1566", "process_image_tfrecord@1598",
              "_parse_function@1743", "process_image_tfrecord@1761"}

\* no dataset bound to the name yet
Unbound == <<>>

\* before timeit is called: no iterator, nothing cached, no function traced
\* or called on an element
NoIterator ==
    [it |-> <<>>, store |-> <<>>, calls |-> [f \in Functions |-> 0],
     traced |-> [f \in Functions |-> 0], produced |-> <<>>, rnd |-> <<>>]

\* the global names that the TFRecord cells define more than once
Names == {"_parse_function", "process_image_tfrecord", "build_dataset_test"}

\* no function call is running
NoFrame == [ds |-> Unbound, n_shards |-> 0, i |-> 0]

\* the dataset cells have not run
DataIdle ==
    /\ datasets = [train_ds |-> Unbound, local_ds |-> Unbound,
                   train_cache_ds |-> Unbound, filenames_dataset |-> Unbound,
                   test_ds |-> Unbound]
    /\ ds = Unbound
    /\ st = NoIterator
    /\ steps = 0
    /\ batch = EOS
    /\ first = EOS
    /\ globals = [n \in Names |-> ""]
    /\ locals = NoFrame
    /\ yielded = <<>>

\* the state every section starts from, but for pc, model and nextId
InitCommon ==
    /\ seed \in Seeds
    /\ new_model = None
    /\ trained = None
    /\ fs = <<>>
    /\ epoch = 0
    /\ cp_callback = ModelCheckpoint(checkpoint_path_1, 1)
    /\ latest = NoPath
    /\ writes = <<>>
    /\ cbSaves = <<>>
    /\ DataIdle

---------------------------------------------------------------------------
(* Section "Checkpoint callback usage": train 10 epochs with the callback, *)
(* then restore the checkpoint into a fresh instance                       *)

create_0 == CreateModel("create_0", "callback_1")
callback_1 == MakeCallback("callback_1", "fit_1", checkpoint_path_1, 1)
fit_1 == FitEpoch("fit_1", "create_1", EPOCHS_1)
create_1 == CreateModel("create_1", "load_1")
load_1 == LoadWeights("load_1", "done_1", RawPath(checkpoint_path_1))

InitTrain1 == InitCommon /\ pc = "create_0" /\ model = None /\ nextId = 1
NextTrain1 == create_0 \/ callback_1 \/ fit_1 \/ create_1 \/ load_1
SpecTrain1 == InitTrain1 /\ [][NextTrain1]_vars

\* the weights a checkpoint file holds, read layer by layer
StoredWeights(fsys, path) ==
    [v \in Vars |-> EntryValue(fsys[path], LayerIndex(Layers, v))]

cp_ckpt == <<"training_1", "cp.ckpt">>

\* C1: during the 10-epoch fit with ModelCheckpoint on "training_1/cp.ckpt",
\* the callback has saved once per finished epoch, always to the same path,
\* and after epoch k (k = 1..10) training_1 holds exactly one checkpoint,
\* whose content is the model's weights at the end of epoch k.
C1_CheckpointRewrittenEveryEpoch ==
    (pc \in {"fit_1", "create_1"} /\ epoch >= 1) =>
        /\ Len(cbSaves) = epoch
        /\ cbSaves[epoch] = <<epoch, cp_ckpt>>
        /\ Checkpoints(fs, "training_1") = {cp_ckpt}
        /\ StoredWeights(fs, cp_ckpt) = model.w
        /\ fs[cp_ckpt].optimizer.iterations = epoch

\* the 10th epoch has ended and its weights are in the single checkpoint
C1_Witness ==
    /\ pc = "create_1"
    /\ epoch = EPOCHS_1
    /\ Len(cbSaves) = EPOCHS_1
    /\ Cardinality(Checkpoints(fs, "training_1")) = 1
    /\ StoredWeights(fs, cp_ckpt) = model.w

\* C2: after the 10-epoch run, the fresh instance returned by create_model()
\* on which load_weights(checkpoint_path) was called is another instance
\* than the trained one and has the trained model's end-of-run weights.
C2_FreshInstanceTakesTrainedWeights ==
    pc = "done_1" =>
        /\ model.id # trained.id
        /\ trained.optimizer.iterations = EPOCHS_1
        /\ model.w = trained.w

\* load_weights has run on the fresh instance
C2_Witness ==
    /\ pc = "done_1"
    /\ model.id = 2 /\ trained.id = 1
    /\ model.w = trained.w
    /\ StoredWeights(fs, cp_ckpt) = model.w

---------------------------------------------------------------------------
(* Section "Checkpoint callback options": 50 epochs, a uniquely named      *)
(* checkpoint every five epochs, then restore the latest one               *)

callback_2 == MakeCallback("callback_2", "create_2", checkpoint_path_2, PERIOD_2)
create_2 == CreateModel("create_2", "save_0")
save_0 == SaveWeights("save_0", "fit_2", FormatPath(checkpoint_path_2, 0))
fit_2 == FitEpoch("fit_2", "latest_2", EPOCHS_2)
latest_2 == LatestCheckpoint("latest_2", "create_3", Dirname(checkpoint_path_2))
create_3 == CreateModel("create_3", "load_2")
load_2 ==
    /\ pc = "load_2"
    /\ LoadWeights("load_2", "done_2", latest)

InitTrain2 == InitCommon /\ pc = "callback_2" /\ model = None /\ nextId = 1
NextTrain2 ==
    callback_2 \/ create_2 \/ save_0 \/ fit_2 \/ latest_2 \/ create_3 \/ load_2
SpecTrain2 == InitTrain2 /\ [][NextTrain2]_vars

cp_0000 == <<"training_2", "cp-0000.ckpt">>
cp_0005 == <<"training_2", "cp-0005.ckpt">>
cp_0050 == <<"training_2", "cp-0050.ckpt">>

\* the epochs, in order, at whose end the callback saved
SavedEpochs == [i \in 1..Len(cbSaves) |-> cbSaves[i][1]]

\* C3: in the 50-epoch run with period=5 the callback saves at the end of
\* the epochs 5, 10, ..., 50 and at no other epoch, each time to the file
\* named after that epoch, so that no two saves go to the same file.
C3_SavesEveryFifthEpoch ==
    pc \in {"fit_2", "latest_2", "create_3", "load_2", "done_2"} =>
        /\ SavedEpochs = [i \in 1..(epoch \div PERIOD_2) |-> PERIOD_2 * i]
        /\ \A i \in 1..Len(cbSaves) :
              cbSaves[i][2] = <<"training_2",
                                "cp-" \o Format04d(SavedEpochs[i]) \o ".ckpt">>
        /\ \A i, j \in 1..Len(cbSaves) : i # j => cbSaves[i][2] # cbSaves[j][2]
        /\ (Len(cbSaves) >= 1 => cbSaves[1][2] = cp_0005)
        /\ (pc # "fit_2" => /\ epoch = EPOCHS_2
                            /\ cbSaves[Len(cbSaves)] = <<EPOCHS_2, cp_0050>>)

\* the run has ended with ten saves in ten files
C3_Witness ==
    /\ pc = "latest_2"
    /\ epoch = EPOCHS_2
    /\ Len(cbSaves) = 10
    /\ Cardinality({cbSaves[i][2] : i \in 1..Len(cbSaves)}) = 10

\* C4: after the 50-epoch run latest_checkpoint returns the checkpoint
\* written last in time, the final epoch's, never the manual cp-0000.ckpt,
\* and the instance reloaded from it has the final trained weights.
C4_LatestIsLastWritten ==
    /\ pc \in {"create_3", "load_2", "done_2"} =>
          /\ latest = writes[Len(writes)]
          /\ latest = cp_0050
          /\ latest # cp_0000
          /\ writes[1] = cp_0000
    /\ pc = "done_2" =>
          /\ model.id # trained.id
          /\ trained.optimizer.iterations = EPOCHS_2
          /\ model.w = trained.w
    /\ pc # "error"

\* the latest checkpoint was found and loaded into the new instance
C4_Witness ==
    /\ pc = "done_2"
    /\ latest = cp_0050
    /\ Len(writes) = 11
    /\ model.w = trained.w
    /\ StoredWeights(fs, cp_0000) # model.w

\* "the default tensorflow format only saves the 5 most recent checkpoints"
MAX_TO_KEEP == 5

\* the paths of the n most recent writes
RecentWrites(n) ==
    {writes[i] : i \in {j \in 1..Len(writes) : j + n > Len(writes)}}

\* C5: at every point of the 50-epoch run training_2 holds at most 5
\* checkpoints, and they are the 5 most recently written.
C5_OnlyFiveMostRecentKept ==
    pc \in {"save_0", "fit_2", "latest_2", "create_3", "load_2", "done_2"} =>
        /\ Cardinality(Checkpoints(fs, "training_2")) <= MAX_TO_KEEP
        /\ Checkpoints(fs, "training_2") = RecentWrites(MAX_TO_KEEP)

---------------------------------------------------------------------------
(* Section "Manually save weights" *)

save_m == SaveWeights("save_m", "create_m", my_checkpoint)
create_m == CreateModel("create_m", "load_m")
load_m == LoadWeights("load_m", "done_m", my_checkpoint)

\* `model` holds any weights and any optimizer state when the cell starts
InitManual ==
    /\ InitCommon
    /\ pc = "save_m"
    /\ \E w \in Weights, s \in Weights, n \in {0, EPOCHS_2} :
          model = [create_model(1, w) EXCEPT
                      !.optimizer = [iterations |-> n, slot |-> s]]
    /\ nextId = 2
NextManual == save_m \/ create_m \/ load_m
SpecManual == InitManual /\ [][NextManual]_vars

\* C6: save_weights('./checkpoints/my_checkpoint'), model = create_model(),
\* load_weights('./checkpoints/my_checkpoint') leaves the new instance with
\* the weights of the instance that was saved, whatever they were.
C6_ManualSaveLoadRoundTrip ==
    pc = "done_m" =>
        /\ model.id # trained.id
        /\ model.w = trained.w
        /\ StoredWeights(fs, my_checkpoint) = trained.w

\* a round trip of weights that differ from layer to layer
C6_Witness ==
    /\ pc = "done_m"
    /\ model.id # trained.id
    /\ model.w = trained.w
    /\ trained.w["dense"] # trained.w["dense_1"]

---------------------------------------------------------------------------
(* Section "Save the entire model": model.save and load_model in the       *)
(* SavedModel and the HDF5 format                                          *)

\* 'saved_model/my_model' and 'my_model.h5' as <<directory, stem, extension>>
saved_model_path == <<"saved_model", "my_model", "">>
h5_path == <<".", "my_model", ".h5">>

\* the weights of m under the names of the layers that hold them
WeightsByName(m) == {<<v, m.w[v]>> : v \in Vars}

\* model.save(path): HDF5 when the path ends in .h5, else a SavedModel
\* directory (saved_model.pb with the graph and the training configuration,
\* and a variables checkpoint); both hold the optimizer's state
SavedContent(m, path) ==
    IF path[3] \in {".h5", ".hdf5", ".keras"}
    THEN [kind |-> "h5",
          model_config |-> m.arch,
          training_config |-> m.compiled,
          model_weights |-> WeightsByName(m),
          optimizer_weights |-> m.optimizer]
    ELSE [kind |-> "saved_model",
          graph |-> m.arch,
          training_config |-> m.compiled,
          variables |-> CheckpointOf(m)]

\* a variant that rebuilds the instance but leaves it uncompiled
load_model_Uncompiled(fsys, path, id) ==
    LET c == fsys[path]
    IN  IF c.kind = "h5"
        THEN [id |-> id, arch |-> c.model_config,
              w |-> [v \in Vars |-> (CHOOSE e \in c.model_weights : e[1] = v)[2]],
              optimizer |-> c.optimizer_weights,
              compiled |-> [optimizer |-> "", loss |-> "", metrics |-> <<>>]]
        ELSE [id |-> id, arch |-> c.graph,
              w |-> [v \in Vars |-> EntryValue(c.variables, LayerIndex(c.graph, v))],
              optimizer |-> c.variables.optimizer,
              compiled |-> [optimizer |-> "", loss |-> "", metrics |-> <<>>]]

\* tf.keras.models.load_model(path): a new instance built from the file
\* alone: architecture, weights, compile arguments and, where the loader
\* restores it, the optimizer state
load_model(fsys, path, id) ==
    LET c == fsys[path]
    IN  IF c.kind = "h5"
        THEN [id |-> id, arch |-> c.model_config,
              w |-> [v \in Vars |-> (CHOOSE e \in c.model_weights : e[1] = v)[2]],
              optimizer |-> c.optimizer_weights,
              compiled |-> c.training_config]
        ELSE [id |-> id, arch |-> c.graph,
              w |-> [v \in Vars |-> EntryValue(c.variables, LayerIndex(c.graph, v))],
              optimizer |-> c.variables.optimizer,
              compiled |-> c.training_config]

\* one epoch of model.fit(train_images, train_labels, epochs=epochs)
FitNoCallback(here, next, epochs) ==
    /\ pc = here
    /\ epoch < epochs
    /\ model' = TrainEpoch(model, seed)
    /\ epoch' = epoch + 1
    /\ pc' = IF epoch + 1 = epochs THEN next ELSE here
    /\ UNCHANGED <<seed, nextId, new_model, trained, fs, cp_callback, latest,
                   writes, cbSaves>>
    /\ UNCHANGED dataVars

\* model.save(path)
SaveModel(here, next, path) ==
    /\ pc = here
    /\ fs' = WriteFile(fs, path, SavedContent(model, path))
    /\ pc' = next
    /\ UNCHANGED <<seed, nextId, model, new_model, trained, epoch, cp_callback,
                   latest, writes, cbSaves>>
    /\ UNCHANGED dataVars

\* new_model = tf.keras.models.load_model(path); the HDF5 loader sets the
\* optimizer's weights from the file, the SavedModel loader compiles the
\* instance from the stored configuration and, depending on the framework
\* version, restores the optimizer's variables or leaves them new
LoadModel(here, next, path) ==
    /\ pc = here
    /\ path \in DOMAIN fs
    /\ \E restored \in (IF fs[path].kind = "h5" THEN {TRUE} ELSE BOOLEAN) :
          new_model' = IF restored THEN load_model(fs, path, nextId)
                       ELSE [load_model(fs, path, nextId)
                               EXCEPT !.optimizer = FreshOptimizer]
    /\ nextId' = nextId + 1
    /\ epoch' = 0
    /\ pc' = next
    /\ UNCHANGED <<seed, model, trained, fs, cp_callback, latest, writes,
                   cbSaves>>
    /\ UNCHANGED dataVars

create_s == CreateModel("create_s", "fit_s")
fit_s == FitNoCallback("fit_s", "save_s", EPOCHS_SAVE)
save_s == SaveModel("save_s", "load_s", saved_model_path)
load_s == LoadModel("load_s", "loaded_s", saved_model_path)
create_h == CreateModel("loaded_s", "fit_h")
fit_h == FitNoCallback("fit_h", "save_h", EPOCHS_SAVE)
save_h == SaveModel("save_h", "load_h", h5_path)
load_h == LoadModel("load_h", "loaded_h", h5_path)

InitWhole == InitCommon /\ pc = "create_s" /\ model = None /\ nextId = 1
NextWhole ==
    \/ create_s \/ fit_s \/ save_s \/ load_s
    \/ create_h \/ fit_h \/ save_h \/ load_h
SpecWhole == InitWhole /\ [][NextWhole]_vars

\* C7: load_model applied to what model.save wrote, in either format,
\* returns another instance with the architecture, the weights and the
\* compile arguments of the model that was saved.
C7_WholeModelRoundTrip ==
    pc \in {"loaded_s", "loaded_h"} =>
        /\ new_model.id # model.id
        /\ new_model.arch = Layers /\ new_model.arch = model.arch
        /\ new_model.w = model.w
        /\ new_model.compiled = CompileArgs /\ new_model.compiled = model.compiled
        /\ model.optimizer.iterations = EPOCHS_SAVE

\* both formats have been written and the HDF5 file has been loaded
C7_Witness ==
    /\ pc = "loaded_h"
    /\ fs[saved_model_path].kind = "saved_model"
    /\ fs[h5_path].kind = "h5"
    /\ new_model.w = model.w
    /\ new_model.compiled = model.compiled

---------------------------------------------------------------------------
(* Datasets (tf.data): a dataset is the sequence of the transformations    *)
(* applied to a source; its iterator holds one state per transformation    *)
(* and produces an element by pulling through them, last to first          *)

\* len(filepath): the number of images listed in the bucket
NUM_TOTAL_IMAGES == 3
\* elements the prefetch transformation may hold ahead of its consumer
PrefetchDepth == 1
\* next(it) calls of timeit followed on a dataset whose cache grows
MaxSteps == 5

\* BATCH_SIZE = 1
BATCH_SIZE == 1
\* timeit(local_ds, 20000, batch_size=1)
LOCAL_STEPS == 20000

Stage(op, arg) == [op |-> op, arg |-> arg]

\* dataset = tf.data.Dataset.from_tensor_slices((features, labels))
dataset == <<Stage("source", NUM_TOTAL_IMAGES)>>

\* build_dataset(dataset, batch_size, cache); cache is "False", "True" or
\* a file name
build_dataset(d, batch_size, cache) ==
    d \o <<Stage("shuffle", NUM_TOTAL_IMAGES),
           Stage("map", "get_bytes_label"),
           Stage("map", "process_image"),
           Stage("repeat", 0),
           Stage("batch", batch_size)>>
      \o (IF cache # "False"
          THEN (IF cache # "True" THEN <<Stage("cache", cache)>>
                ELSE <<Stage("cache", "")>>)
          ELSE <<>>)
      \o <<Stage("prefetch", 0)>>

\* train_ds.take(1).cache().repeat()
take_cache_repeat(d) ==
    d \o <<Stage("take", 1), Stage("cache", ""), Stage("repeat", 0)>>

\* the state of one transformation's iterator when it is created
InitStage == [pos |-> 0, buf |-> <<>>, mode |-> "new"]

\* a cache that holds nothing yet
EmptyCache == [complete |-> FALSE, data |-> <<>>]

\* iter(ds): a new iterator; caches of the dataset keep what they hold
NewIterator(d, s) ==
    [s EXCEPT !.it = [i \in 1..Len(d) |-> InitStage],
              !.store = IF Len(@) = Len(d) THEN @
                        ELSE [i \in 1..Len(d) |-> EmptyCache],
              !.produced = IF Len(@) = Len(d) THEN @
                           ELSE [i \in 1..Len(d) |-> 0]]

\* what a function raises when its argument has the wrong rank
Failed == <<"InvalidArgumentError", 0>>

\* a function applied to each element of a batch, giving a batch
Vectorized(b, from, to) ==
    IF b[1] = "batch" /\ \A j \in 1..Len(b[2]) : b[2][j][1] = from
    THEN <<"batch", [j \in 1..Len(b[2]) |-> <<to, b[2][j][2]>>]>>
    ELSE Failed

\* get_bytes_label: (filepath, label) -> (raw_bytes, label);
\* process_image: (raw_bytes, label) -> (image, label);
\* _parse_function (parse_single_example): serialized Example -> record;
\* process_image_tfrecord(record): record -> (image, label);
\* their redefinitions (parse_example, map_fn) do the same to a batch
Apply(f, e) ==
    CASE f = "get_bytes_label" -> <<"raw_bytes", e[2]>>
      [] f = "process_image" -> <<"image", e[2]>>
      [] f = "get_bytes_label_tfrecord" -> <<"raw_bytes", e[2]>>
      [] f = "process_image_tfrecord@1411" -> <<"jpeg", e[2]>>
      [] f = "_parse_function@1566" ->
            IF e[1] = "Example" THEN <<"record", e[2]>> ELSE Failed
      [] f = "process_image_tfrecord@1598" ->
            IF e[1] = "record" THEN <<"image", e[2]>> ELSE Failed
      [] f = "_parse_function@1743" -> Vectorized(e, "Example", "record")
      [] f = "process_image_tfrecord@1761" -> Vectorized(e, "record", "image")

Ret(v, s) == [val |-> v, st |-> s]

\* a transformation's iterator is re-created: the iterators it pulls from
\* are dropped with what they buffered; caches keep their content
ResetBelow(s, i) ==
    [s EXCEPT !.it = [j \in 1..Len(@) |-> IF j < i THEN InitStage ELSE @[j]]]

RemoveAt(q, k) == [j \in 1..(Len(q) - 1) |-> IF j < k THEN q[j] ELSE q[j + 1]]

RECURSIVE GetNext(_, _, _)

\* from_tensor_slices: the elements in order
SourceNext(d, s, i) ==
    IF s.it[i].pos < d[i].arg
    THEN Ret(<<"filepath", s.it[i].pos + 1>>, [s EXCEPT !.it[i].pos = @ + 1])
    ELSE Ret(EOS, s)

\* shuffle: the buffer is filled from the input up to buffer_size
RECURSIVE FillBuffer(_, _, _)
FillBuffer(d, s, i) ==
    IF Len(s.it[i].buf) >= d[i].arg THEN s
    ELSE LET r == GetNext(d, s, i - 1)
         IN  IF r.val = EOS THEN r.st
             ELSE FillBuffer(d, [r.st EXCEPT !.it[i].buf = Append(@, r.val)], i)

\* shuffle: a random element of the filled buffer
ShuffleNext(d, s, i) ==
    LET f == FillBuffer(d, s, i)
        b == f.it[i].buf
        r == IF f.rnd = <<>> THEN 1 ELSE Head(f.rnd)
        k == ((r - 1) % Len(b)) + 1
    IN  IF b = <<>> THEN Ret(EOS, f)
        ELSE Ret(b[k], [f EXCEPT !.it[i].buf = RemoveAt(b, k),
                                 !.rnd = IF @ = <<>> THEN @ ELSE Tail(@)])

\* map: the function is called on every element pulled
MapNext(d, s, i) ==
    LET r == GetNext(d, s, i - 1)
    IN  IF r.val = EOS THEN r
        ELSE Ret(Apply(d[i].arg, r.val),
                 [r.st EXCEPT !.calls[d[i].arg] = @ + 1])

\* repeat(): when the input ends, a new iterator over it is started
RepeatNext(d, s, i) ==
    LET r == GetNext(d, s, i - 1)
    IN  IF r.val # EOS THEN r
        ELSE GetNext(d, ResetBelow(r.st, i), i - 1)

\* batch: up to batch_size elements of the input
RECURSIVE Collect(_, _, _, _, _)
Collect(d, s, i, n, acc) ==
    IF n = 0 THEN Ret(<<"batch", acc>>, s)
    ELSE LET r == GetNext(d, s, i - 1)
         IN  IF r.val = EOS
             THEN Ret(IF acc = <<>> THEN EOS ELSE <<"batch", acc>>, r.st)
             ELSE Collect(d, r.st, i, n - 1, Append(acc, r.val))

BatchNext(d, s, i) == Collect(d, s, i, d[i].arg, <<>>)

\* take(n): the first n elements of the input, then the end
TakeNext(d, s, i) ==
    IF s.it[i].pos >= d[i].arg THEN Ret(EOS, s)
    ELSE LET r == GetNext(d, s, i - 1)
         IN  IF r.val = EOS THEN r
             ELSE Ret(r.val, [r.st EXCEPT !.it[i].pos = @ + 1])

\* how a cache iterator works: it reads the cache if the cache is complete
\* when the iterator is first used, and otherwise writes it
CacheMode(s, i) ==
    IF s.it[i].mode # "new" THEN s.it[i].mode
    ELSE IF s.store[i].complete THEN "read" ELSE "write"

\* a variant whose writer drops what it wrote when the input ends
CacheNext_NeverCompletes(d, s, i) ==
    LET s1 == [s EXCEPT !.it[i].mode = CacheMode(s, i)]
        r == GetNext(d, s1, i - 1)
    IN  IF r.val = EOS THEN Ret(EOS, r.st)
        ELSE Ret(r.val, [r.st EXCEPT !.it[i].buf = Append(@, r.val)])

\* cache: a writing iterator passes the input's elements on and keeps them;
\* when the input ends the cache is complete.  A reading iterator serves
\* the kept elements and never pulls from the input
CacheNext(d, s, i) ==
    LET s1 == [s EXCEPT !.it[i].mode = CacheMode(s, i)]
        r == GetNext(d, s1, i - 1)
    IN  IF s1.it[i].mode = "read"
        THEN IF s1.it[i].pos < Len(s1.store[i].data)
             THEN Ret(s1.store[i].data[s1.it[i].pos + 1],
                      [s1 EXCEPT !.it[i].pos = @ + 1])
             ELSE Ret(EOS, s1)
        ELSE IF r.val = EOS
             THEN Ret(EOS, [r.st EXCEPT !.store[i] =
                               [complete |-> TRUE, data |-> r.st.it[i].buf]])
             ELSE Ret(r.val, [r.st EXCEPT !.it[i].buf = Append(@, r.val)])

\* prefetch: the oldest buffered element, or the input's next one when
\* nothing is buffered; the first call starts the background thread
PrefetchNext(d, s, i) ==
    LET r == GetNext(d, s, i - 1)
    IN  IF s.it[i].buf # <<>>
        THEN Ret(Head(s.it[i].buf),
                 [s EXCEPT !.it[i].buf = Tail(@), !.it[i].mode = "running"])
        ELSE Ret(r.val, [r.st EXCEPT !.it[i].mode = "running"])

\* a variant that numbers the elements of its input from one
RECURSIVE ShardNext_FromOne(_, _, _)
ShardNext_FromOne(d, s, i) ==
    LET r == GetNext(d, s, i - 1)
        p == s.it[i].pos
        s1 == [r.st EXCEPT !.it[i].pos = p + 1]
    IN  IF r.val = EOS THEN r
        ELSE IF (p + 1) % d[i].arg[1] = d[i].arg[2] THEN Ret(r.val, s1)
        ELSE ShardNext_FromOne(d, s1, i)

\* shard(num_shards, index): the elements of the input whose position,
\* counted from zero, is index modulo num_shards
RECURSIVE ShardNext(_, _, _)
ShardNext(d, s, i) ==
    LET r == GetNext(d, s, i - 1)
        p == s.it[i].pos
        s1 == [r.st EXCEPT !.it[i].pos = p + 1]
    IN  IF r.val = EOS THEN r
        ELSE IF p % d[i].arg[1] = d[i].arg[2] THEN Ret(r.val, s1)
        ELSE ShardNext(d, s1, i)

\* 'output_file-part-{i}.tfrecord'.format(i=i), in the working directory
part_path(i) == <<".", "output_file-part-" \o Digit(i) \o ".tfrecord">>

\* TFRECORDS = 'gs://renatoleite-nb/tfrecords/*': the directory listed
TFRECORDS == "gs://renatoleite-nb/tfrecords"

\* get_tfrecord(filename): the records of the k-th file of the sorted
\* listing of TFRECORDS, in order
get_tfrecord(k) == fs[<<TFRECORDS, part_path(k - 1)[2]>>]

\* interleave(get_tfrecord): cycle_length files are open at a time and give
\* one record each in turn; when a file ends its place is freed and the
\* turn passes on; a free place is taken by the next file name of the input
RECURSIVE InterleaveNext(_, _, _)
InterleaveNext(d, s, i) ==
    LET c == d[i].arg
        slots == IF s.it[i].buf = <<>> THEN [j \in 1..c |-> <<0, 0>>]
                 ELSE s.it[i].buf
        k == s.it[i].pos + 1
        advance == (s.it[i].pos + 1) % c
    IN  IF slots[k][1] # 0
        THEN IF slots[k][2] < Len(get_tfrecord(slots[k][1]))
             THEN Ret(get_tfrecord(slots[k][1])[slots[k][2] + 1],
                      [s EXCEPT !.it[i].buf = [slots EXCEPT ![k][2] = @ + 1],
                                !.it[i].pos = advance])
             ELSE InterleaveNext(d,
                      [s EXCEPT !.it[i].buf = [slots EXCEPT ![k] = <<0, 0>>],
                                !.it[i].pos = advance], i)
        ELSE IF s.it[i].mode # "input_end"
        THEN LET r == GetNext(d, s, i - 1)
             IN  IF r.val = EOS
                 THEN InterleaveNext(d,
                          [r.st EXCEPT !.it[i].buf = slots,
                                       !.it[i].mode = "input_end"], i)
                 ELSE InterleaveNext(d,
                          [r.st EXCEPT !.it[i].buf =
                                          [slots EXCEPT ![k] = <<r.val[2], 0>>]], i)
        ELSE IF \A j \in 1..c : slots[j][1] = 0
        THEN Ret(EOS, [s EXCEPT !.it[i].buf = slots])
        ELSE InterleaveNext(d, [s EXCEPT !.it[i].buf = slots,
                                         !.it[i].pos = advance], i)

\* the next element of the i-th transformation of dataset d
GetNext(d, s, i) ==
    LET r == CASE d[i].op = "source" -> SourceNext(d, s, i)
               [] d[i].op = "shuffle" -> ShuffleNext(d, s, i)
               [] d[i].op = "map" -> MapNext(d, s, i)
               [] d[i].op = "repeat" -> RepeatNext(d, s, i)
               [] d[i].op = "batch" -> BatchNext(d, s, i)
               [] d[i].op = "take" -> TakeNext(d, s, i)
               [] d[i].op = "cache" -> CacheNext(d, s, i)
               [] d[i].op = "prefetch" -> PrefetchNext(d, s, i)
               [] d[i].op = "shard" -> ShardNext(d, s, i)
               [] d[i].op = "interleave" -> InterleaveNext(d, s, i)
    IN  IF r.val = EOS THEN r
        ELSE Ret(r.val, [r.st EXCEPT !.produced[i] = @ + 1])

---------------------------------------------------------------------------
(* Cells that build and iterate datasets *)

\* the random choices one call may consume (one per shuffled element)
Randoms == [1..BATCH_SIZE -> 1..NUM_TOTAL_IMAGES]

\* the map transformations of d that are given function f
Traces(d, f) ==
    Cardinality({i \in 1..Len(d) : d[i].op = "map" /\ d[i].arg = f})

\* a variant in which map learns the type of its output by calling the
\* function on the first element of its input
Constructed_OnFirstElement(d, s) ==
    [s EXCEPT !.traced = [f \in Functions |-> @[f] + Traces(d, f)],
              !.calls = [f \in Functions |-> @[f] + Traces(d, f)]]

\* the state after the transformations of d have been constructed: map
\* traces its function, which runs the Python body once on symbolic
\* tensors (read_file and the image operations are added to a graph, no
\* file is read); shuffle, repeat, batch, cache and prefetch record their
\* input and arguments; none pulls an element of its input
Constructed(d, s) ==
    [s EXCEPT !.traced = [f \in Functions |-> @[f] + Traces(d, f)]]

\* <name> = build_dataset(dataset, cache=...)
BuildDataset(here, next, name, caches) ==
    /\ pc = here
    /\ \E c \in caches :
          /\ datasets' = [datasets EXCEPT ![name] = build_dataset(dataset, BATCH_SIZE, c)]
          /\ st' = Constructed(build_dataset(dataset, BATCH_SIZE, c), st)
    /\ pc' = next
    /\ UNCHANGED <<ds, steps, batch, first>>
    /\ UNCHANGED <<ckptVars, tfrVars>>

\* local_ds = train_ds.take(1).cache().repeat()
BuildLocal(here, next) ==
    /\ pc = here
    /\ datasets' = [datasets EXCEPT !.local_ds = take_cache_repeat(datasets.train_ds)]
    /\ pc' = next
    /\ UNCHANGED <<ds, st, steps, batch, first>>
    /\ UNCHANGED <<ckptVars, tfrVars>>

\* timeit(ds, ...): it = iter(ds)
TimeitIter(here, next, name) ==
    /\ pc = here
    /\ ds' = datasets[name]
    /\ st' = NewIterator(datasets[name], st)
    /\ steps' = 0
    /\ pc' = next
    /\ UNCHANGED <<datasets, batch, first>>
    /\ UNCHANGED <<ckptVars, tfrVars>>

\* timeit: batch = next(it), while i < limit; at the end of the dataset
\* next(it) raises StopIteration, which timeit does not catch: the call is
\* aborted with i and batch as they were
TimeitNext(here, limit) ==
    /\ pc = here
    /\ steps < limit
    /\ \E rnd \in Randoms :
          LET r == GetNext(ds, [st EXCEPT !.rnd = rnd], Len(ds))
          IN  /\ st' = [r.st EXCEPT !.rnd = <<>>]
              /\ IF r.val = EOS
                 THEN /\ pc' = "StopIteration"
                      /\ UNCHANGED <<batch, first, steps>>
                 ELSE /\ batch' = r.val
                      /\ first' = IF steps = 0 THEN r.val ELSE first
                      /\ steps' = steps + 1
                      /\ UNCHANGED pc
    /\ UNCHANGED <<datasets, ds>>
    /\ UNCHANGED <<ckptVars, tfrVars>>

\* the background thread of a prefetch transformation whose iterator is in
\* use pulls one more element into its buffer
PrefetchFill(here) ==
    /\ pc = here
    /\ \E i \in 1..Len(ds) :
          /\ ds[i].op = "prefetch"
          /\ st.it[i].mode = "running"
          /\ Len(st.it[i].buf) < PrefetchDepth
          /\ \E rnd \in Randoms :
                LET r == GetNext(ds, [st EXCEPT !.rnd = rnd], i - 1)
                IN  /\ r.val # EOS
                    /\ st' = [r.st EXCEPT !.rnd = <<>>,
                                          !.it[i].buf = Append(@, r.val)]
    /\ UNCHANGED <<pc, datasets, ds, steps, batch, first>>
    /\ UNCHANGED <<ckptVars, tfrVars>>

\* the save-and-load cells are not part of this notebook's run
InitData ==
    /\ seed = 0
    /\ nextId = 1
    /\ model = None
    /\ new_model = None
    /\ trained = None
    /\ fs = <<>>
    /\ epoch = 0
    /\ cp_callback = ModelCheckpoint(checkpoint_path_1, 1)
    /\ latest = NoPath
    /\ writes = <<>>
    /\ cbSaves = <<>>
    /\ DataIdle

---------------------------------------------------------------------------
(* Section "Ok, let's put some local cache in action" *)

build_cache ==
    BuildDataset("build_cache", "timeit_cache", "train_cache_ds",
                 {"True", "./dog.tfcache"})
timeit_cache == TimeitIter("timeit_cache", "next_cache", "train_cache_ds")
next_cache == TimeitNext("next_cache", MaxSteps)
prefetch_cache == PrefetchFill("next_cache")

InitCache == InitData /\ pc = "build_cache"
NextCache == build_cache \/ timeit_cache \/ next_cache \/ prefetch_cache
SpecCache == InitCache /\ [][NextCache]_vars

\* the position of the cache transformation in dataset d
CacheStage(d) == CHOOSE i \in 1..Len(d) : d[i].op = "cache"

\* C9: with cache enabled in build_dataset the cache holds all the data
\* after the first pass: once NUM_TOTAL_IMAGES elements have gone through,
\* later elements are served from the complete cache and get_bytes_label
\* and process_image have been called once per image and no more.
C9_CacheHoldsAllAfterFirstPass ==
    (pc = "next_cache" /\ st.produced[CacheStage(ds)] > NUM_TOTAL_IMAGES) =>
        /\ st.store[CacheStage(ds)].complete
        /\ st.it[CacheStage(ds)].mode = "read"
        /\ st.calls["get_bytes_label"] = NUM_TOTAL_IMAGES
        /\ st.calls["process_image"] = NUM_TOTAL_IMAGES

---------------------------------------------------------------------------
(* Section "Benchmark baseline" *)

build_train == BuildDataset("build_train", "build_local", "train_ds", {"False"})
build_local == BuildLocal("build_local", "timeit_local")
timeit_local == TimeitIter("timeit_local", "next_local", "local_ds")
next_local == TimeitNext("next_local", LOCAL_STEPS)
prefetch_local == PrefetchFill("next_local")

InitLocal == InitData /\ pc = "build_train"
NextLocal ==
    build_train \/ build_local \/ timeit_local \/ next_local \/ prefetch_local
SpecLocal == InitLocal /\ [][NextLocal]_vars

\* the number of elements local_ds has pulled from train_ds: train_ds is
\* the leading part of local_ds, and its last transformation hands them on
PulledFromTrain == st.produced[Len(datasets.train_ds)]

\* C10: for local_ds = train_ds.take(1).cache().repeat() the upstream
\* train_ds yields a single element, during the first pass; every element
\* timeit reads is that first one; and once the first pass is over (from
\* the second next(it) on) no preprocessing function is called again.
C10_LocalCacheServesFirstElement ==
    /\ [](pc = "next_local" =>
            /\ PulledFromTrain <= 1
            /\ (steps >= 1 =>
                  /\ PulledFromTrain = 1
                  /\ first # EOS
                  /\ first[1] = "batch" /\ Len(first[2]) = BATCH_SIZE
                  /\ first[2][1][1] = "image"
                  /\ batch = first)
            /\ (steps >= 2 => st.store[CacheStage(ds)].complete))
    /\ [][(pc = "next_local" /\ steps >= 2) => st'.calls = st.calls]_vars

\* all 20000 elements have been read and the last equals the first
C10_Witness ==
    /\ pc = "next_local"
    /\ steps = LOCAL_STEPS
    /\ batch = first
    /\ first # EOS
    /\ PulledFromTrain = 1
    /\ st.store[CacheStage(ds)].data = <<first>>

---------------------------------------------------------------------------
(* Section "Building the dataset": build_dataset, then timeit *)

InitLazy == InitData /\ pc = "build_lazy"

\* train_ds = build_dataset(dataset, cache=...); timeit(train_ds, ...)
NextLazy ==
    \/ BuildDataset("build_lazy", "timeit_lazy", "train_ds",
                    {"False", "True", "./dog.tfcache"})
    \/ TimeitIter("timeit_lazy", "next_lazy", "train_ds")
    \/ TimeitNext("next_lazy", MaxSteps)
    \/ PrefetchFill("next_lazy")

SpecLazy == InitLazy /\ [][NextLazy]_vars

\* no map function has been applied to an element, and no transformation
\* has produced one
NothingPerformed ==
    /\ \A f \in Functions : st.calls[f] = 0
    /\ \A i \in 1..Len(st.produced) : st.produced[i] = 0

---------------------------------------------------------------------------
(* Section "Creating TFRecords": create_tfrecord *)

\* the largest number of shards and of dataset elements explored
MaxShards == 4
MaxRecords == 5

\* build_dataset_tfrecord: read the file, then decode, resize and re-encode
build_dataset_tfrecord(d) ==
    d \o <<Stage("map", "get_bytes_label_tfrecord"),
           Stage("map", "process_image_tfrecord@1411")>>

\* tf_serialize_example: the serialized Example holding image and label
tf_serialize_example(e) == <<"Example", e[2]>>

\* create_tfrecord(ds, n_shards) is called on a from_tensor_slices dataset
CreateTfrecord(here, next) ==
    /\ pc = here
    /\ \E k \in 1..MaxRecords, n \in 1..MaxShards :
          locals' = [ds |-> <<Stage("source", k)>>, n_shards |-> n, i |-> 0]
    /\ pc' = next
    /\ UNCHANGED <<ckptVars, datasets, ds, st, steps, batch, first, globals,
                   yielded>>

\* for i in range(n_shards): the shard's iterator is made and its file opened
ForShard(here, write, done) ==
    /\ pc = here
    /\ IF locals.i < locals.n_shards
       THEN LET d == build_dataset_tfrecord(
                        locals.ds \o <<Stage("shard", <<locals.n_shards, locals.i>>)>>)
            IN  /\ ds' = d
                /\ st' = NewIterator(d, Constructed(d,
                             [NoIterator EXCEPT !.calls = st.calls,
                                                !.traced = st.traced]))
                /\ fs' = WriteFile(fs, part_path(locals.i), <<>>)
                /\ pc' = write
       ELSE /\ pc' = done
            /\ UNCHANGED <<ds, st, fs>>
    /\ UNCHANGED <<seed, nextId, model, new_model, trained, epoch, cp_callback,
                   latest, writes, cbSaves>>
    /\ UNCHANGED <<datasets, steps, batch, first, tfrVars>>

\* for a in batch: writer.write(a); at the end the writer is closed and
\* the loop goes to the next shard
WriteRecord(here, loop) ==
    /\ pc = here
    /\ LET r == GetNext(ds, st, Len(ds))
           p == part_path(locals.i)
       IN  /\ st' = r.st
           /\ IF r.val = EOS
              THEN /\ locals' = [locals EXCEPT !.i = @ + 1]
                   /\ pc' = loop
                   /\ UNCHANGED fs
              ELSE /\ fs' = WriteFile(fs, p, Append(fs[p], tf_serialize_example(r.val)))
                   /\ UNCHANGED <<locals, pc>>
    /\ UNCHANGED <<seed, nextId, model, new_model, trained, epoch, cp_callback,
                   latest, writes, cbSaves>>
    /\ UNCHANGED <<datasets, ds, steps, batch, first, globals, yielded>>

InitTfrecord == InitData /\ pc = "create_tfrecord"

NextTfrecord ==
    \/ CreateTfrecord("create_tfrecord", "for_shard")
    \/ ForShard("for_shard", "write", "tfrecord_done")
    \/ WriteRecord("write", "for_shard")

SpecTfrecord == InitTfrecord /\ [][NextTfrecord]_vars

\* the elements of a dataset of k elements that belong to shard i of n,
\* serialized, in dataset order (elements are numbered from 1, their
\* indices from 0)
ExpectedShard(k, n, i) ==
    LET cnt == IF k > i THEN (k - i + n - 1) \div n ELSE 0
    IN  [j \in 1..cnt |-> <<"Example", i + 1 + (j - 1) * n>>]

\* C12: create_tfrecord(ds, n_shards) writes exactly the files
\* output_file-part-0 .. output_file-part-(n_shards-1), and every element of
\* ds is serialized and written exactly once, to the file whose number is
\* the element's index modulo n_shards, in dataset order within that file.
C12_EveryElementInItsShardFile ==
    pc = "tfrecord_done" =>
        /\ DOMAIN fs = {part_path(i) : i \in 0..(locals.n_shards - 1)}
        /\ \A i \in 0..(locals.n_shards - 1) :
              fs[part_path(i)]
                = ExpectedShard(locals.ds[1].arg, locals.n_shards, i)
        /\ \A k \in 1..locals.ds[1].arg :
              Cardinality({<<q, j>> \in (DOMAIN fs) \X (1..MaxRecords) :
                             j <= Len(fs[q]) /\ fs[q][j] = <<"Example", k>>}) = 1

\* four shards of five elements have been written: the first file holds two
\* records, the others one
C12_Witness ==
    /\ pc = "tfrecord_done"
    /\ locals.n_shards = 4
    /\ locals.ds[1].arg = 5
    /\ Len(fs[part_path(0)]) = 2
    /\ Len(fs[part_path(3)]) = 1

---------------------------------------------------------------------------
(* Sections "Consuming TFRecords" and "Batch before we Map!" *)

\* the cycle_length that AUTOTUNE gives interleave on the machine, and the
\* batch_size both build_dataset_test calls pass (32 in the notebook)
Cores == 2
TestBatch == 2

\* a variant in which a def of a name that is already bound is ignored
Bind_KeepFirst(g, name, f) ==
    IF g[name] = "" THEN [g EXCEPT ![name] = f] ELSE g

\* a def statement binds the global name to the new function
Bind(g, name, f) == [g EXCEPT ![name] = f]

\* a cell holding the def of `name` is run
Def(here, next, name, f) ==
    /\ pc = here
    /\ globals' = Bind(globals, name, f)
    /\ pc' = next
    /\ UNCHANGED <<ckptVars, datasets, ds, st, steps, batch, first, locals,
                   yielded>>

\* "The files were copied to the following path": every file that
\* create_tfrecord wrote gets a copy of the same name under TFRECORDS
CopyToBucket(here, next) ==
    /\ pc = here
    /\ fs' = [q \in (DOMAIN fs) \cup {<<TFRECORDS, p[2]>> : p \in DOMAIN fs} |->
                 IF q[1] = TFRECORDS THEN fs[<<".", q[2]>>] ELSE fs[q]]
    /\ pc' = next
    /\ UNCHANGED <<seed, nextId, model, new_model, trained, epoch, cp_callback,
                   latest, writes, cbSaves>>
    /\ UNCHANGED dataVars

\* filenames = tf.io.gfile.glob(TFRECORDS);
\* filenames_dataset = tf.data.Dataset.from_tensor_slices(filenames)
ListFiles(here, next) ==
    /\ pc = here
    /\ datasets' = [datasets EXCEPT !.filenames_dataset =
                       <<Stage("source",
                               Cardinality({p \in DOMAIN fs : p[1] = TFRECORDS}))>>]
    /\ pc' = next
    /\ UNCHANGED <<ckptVars, ds, st, steps, batch, first, tfrVars>>

\* the first build_dataset_test; the names of the map functions are looked
\* up when the body runs
build_dataset_test_1649(d, batch_size) ==
    d \o <<Stage("interleave", Cores),
           Stage("map", globals["_parse_function"]),
           Stage("map", globals["process_image_tfrecord"]),
           Stage("repeat", 0),
           Stage("batch", batch_size),
           Stage("prefetch", 0)>>

\* the second build_dataset_test: batch comes before the maps and repeat
build_dataset_test_1715(d, batch_size) ==
    d \o <<Stage("interleave", Cores),
           Stage("batch", batch_size),
           Stage("map", globals["_parse_function"]),
           Stage("map", globals["process_image_tfrecord"]),
           Stage("repeat", 0),
           Stage("prefetch", 0)>>

\* test_ds = build_dataset_test(filenames_dataset, batch_size=32): the
\* function the name is bound to at the call is run
BuildTest(here, next) ==
    /\ pc = here
    /\ globals["build_dataset_test"] # ""
    /\ LET d == IF globals["build_dataset_test"] = "build_dataset_test@1649"
                THEN build_dataset_test_1649(datasets.filenames_dataset, TestBatch)
                ELSE build_dataset_test_1715(datasets.filenames_dataset, TestBatch)
       IN  /\ datasets' = [datasets EXCEPT !.test_ds = d]
           /\ st' = Constructed(d, st)
    /\ yielded' = Append(yielded, <<>>)
    /\ pc' = next
    /\ UNCHANGED <<ckptVars, ds, steps, batch, first, globals, locals>>

\* timeit(test_ds, steps=20000, batch_size=32): batch = next(it) for every
\* i in range(steps), then the cell ends; at the end of the dataset next(it)
\* raises StopIteration, the cell fails and the cells below it are not run
TimeitTest(here, next, limit) ==
    /\ pc = here
    /\ IF steps < limit
       THEN LET r == GetNext(ds, st, Len(ds))
            IN  /\ st' = r.st
                /\ IF r.val = EOS
                   THEN /\ pc' = "StopIteration"
                        /\ UNCHANGED <<batch, first, yielded, steps>>
                   ELSE /\ batch' = r.val
                        /\ first' = IF steps = 0 THEN r.val ELSE first
                        /\ yielded' = [yielded EXCEPT
                                          ![Len(yielded)] = Append(@, r.val)]
                        /\ steps' = steps + 1
                        /\ UNCHANGED pc
       ELSE /\ pc' = next
            /\ UNCHANGED <<st, batch, first, yielded, steps>>
    /\ UNCHANGED <<ckptVars, datasets, ds, globals, locals>>

InitTest == InitData /\ pc = "def_1411"

\* the cells from the definition of process_image_tfrecord to the second
\* benchmark, run top to bottom
NextTest ==
    \/ Def("def_1411", "create_tfrecord",
           "process_image_tfrecord", "process_image_tfrecord@1411")
    \/ NextTfrecord
    \/ CopyToBucket("tfrecord_done", "def_1566")
    \/ Def("def_1566", "list_files",
           "_parse_function", "_parse_function@1566")
    \/ ListFiles("list_files", "def_1598")
    \/ Def("def_1598", "def_1649",
           "process_image_tfrecord", "process_image_tfrecord@1598")
    \/ Def("def_1649", "build_1673",
           "build_dataset_test", "build_dataset_test@1649")
    \/ BuildTest("build_1673", "timeit_1682")
    \/ TimeitIter("timeit_1682", "next_1682", "test_ds")
    \/ TimeitTest("next_1682", "def_1715", MaxSteps)
    \/ PrefetchFill("next_1682")
    \/ Def("def_1715", "def_1743",
           "build_dataset_test", "build_dataset_test@1715")
    \/ Def("def_1743", "def_1761",
           "_parse_function", "_parse_function@1743")
    \/ Def("def_1761", "build_1780",
           "process_image_tfrecord", "process_image_tfrecord@1761")
    \/ BuildTest("build_1780", "timeit_1789")
    \/ TimeitIter("timeit_1789", "next_1789", "test_ds")
    \/ TimeitTest("next_1789", "end", MaxSteps)
    \/ PrefetchFill("next_1789")

SpecTest == InitTest /\ [][NextTest]_vars

\* C13: when the second test_ds is built, build_dataset_test,
\* _parse_function and process_image_tfrecord all resolve to their batched
\* redefinitions; the pipeline is interleave, batch, the two batched maps,
\* repeat, prefetch, uses none of the per-element definitions, and its map
\* functions accept what they are given.
C13_SecondPipelineUsesBatchedDefinitions ==
    Len(yielded) = 2 =>
        /\ globals["build_dataset_test"] = "build_dataset_test@1715"
        /\ globals["_parse_function"] = "_parse_function@1743"
        /\ globals["process_image_tfrecord"] = "process_image_tfrecord@1761"
        /\ datasets.test_ds
             = <<Stage("source", locals.n_shards),
                 Stage("interleave", Cores),
                 Stage("batch", TestBatch),
                 Stage("map", "_parse_function@1743"),
                 Stage("map", "process_image_tfrecord@1761"),
                 Stage("repeat", 0),
                 Stage("prefetch", 0)>>
        /\ \A k \in 1..Len(yielded[2]) : yielded[2][k] # Failed

\* the second test_ds has been built and iterated
C13_Witness ==
    /\ Len(yielded) = 2
    /\ pc = "next_1789"
    /\ Len(yielded[2]) >= 2
    /\ yielded[2][1][1] = "batch"

\* C14: the second build_dataset_test yields the same sequence of batches
\* as the first, for the same filenames_dataset and batch_size, also across
\* the boundary between two passes over the data.
C14_BatchFirstYieldsSameBatches ==
    Len(yielded) = 2 =>
        \A k \in 1..Len(yielded[2]) :
            k <= Len(yielded[1]) => yielded[2][k] = yielded[1][k]

====
